---- MODULE Spec2Model ----
(***************************************************************************)
(* Model of edx/analytics/tasks/util/vertica_target.py: VerticaTarget, a   *)
(* luigi target that records completed updates in a marker table of a      *)
(* Vertica database.                                                       *)
(*                                                                         *)
(* The database (marker table, rows, connections and their transactions)   *)
(* is the shared state.  Each process is a caller thread that constructs a *)
(* VerticaTarget per call and runs touch, exists or create_marker_table on *)
(* it; every call of the driver (connect, CREATE TABLE, close, INSERT,      *)
(* SELECT) is one step, so calls of different processes interleave between *)
(* them.                                                                   *)
(* The driver, vertica_python, is the environment: it answers a statement  *)
(* from the state of the database, or with an error it is free to raise.   *)
(***************************************************************************)
EXTENDS Integers, Sequences, FiniteSets, TLC

\* ------------------------------------------------------------------ bounds
NumProcs == 2
NumCallers == 1
MaxRows == 2
MaxSeqCalls == 4
MaxRaceCalls == 3
MaxHostLen == 4

Procs == 1..NumProcs
\* The processes that run where faults and callers' connections are in play.
Callers == 1..NumCallers
UpdateIds == {"u1", "u2"}
Ops == {"touch", "exists", "create"}

\* Python's None for a connection variable.
None == 0

\* The connections a process can hold a reference to: the one its caller
\* opened, the one create_marker_table opens, and the one touch or exists
\* opens.  A connection nobody refers to any more is only counted (leaked).
ConnIds == 1..(3 * NumProcs)
CallerId(p) == 3 * p - 2
CreateId(p) == 3 * p - 1
OwnId(p) == 3 * p

\* ------------------------------------------------------------ driver errors
\* An error of vertica_python: its class and the Sqlstate its message carries.
NoFault == [cls |-> "none", sqlstate |-> "none"]
ErrMissingRelation == [cls |-> "MissingRelation", sqlstate |-> "42V01"]
ErrMissingText == [cls |-> "QueryError", sqlstate |-> "42V01"]
ErrDuplicate == [cls |-> "DuplicateObject", sqlstate |-> "42710"]
ErrDuplicateText == [cls |-> "QueryError", sqlstate |-> "42710"]
ErrPermission == [cls |-> "PermissionDenied", sqlstate |-> "42501"]
ErrConnection == [cls |-> "ConnectionError", sqlstate |-> "none"]
AssertionError == [cls |-> "AssertionError", sqlstate |-> "none"]

\* vertica_python.errors.QueryError and its subclasses.
IsQueryError(err) ==
    err.cls \in {"QueryError", "MissingRelation", "DuplicateObject", "PermissionDenied"}

\* vertica_python.errors.Error and its subclasses.
IsVerticaError(err) ==
    IsQueryError(err) \/ err.cls = "ConnectionError"

\* Faults the environment may inject into one driver call.
ConnectFaults == {ErrConnection}
CreateFaults == {ErrPermission, ErrConnection}
InsertFaults == {ErrPermission, ErrMissingRelation}
SelectFaults == {ErrPermission, ErrConnection, ErrMissingRelation}

\* ------------------------------------------------------------------- state
VARIABLES
    tableExists,   \* the marker table exists in the database
    rows,          \* committed marker rows: update_id -> number of rows
    conns,         \* the connections some variable refers to, by number
    leaked,        \* connections left open that no variable refers to,
                   \* counted where a record is kept
    callerConn,    \* the connection a caller holds to pass in (None if none)
    pc,            \* position of each process
    frame,         \* arguments and local variables of the running call
    obs,           \* what the running call has been observed to do
    everInserted,  \* update_id -> some touch has executed its INSERT
    log,           \* completed calls, in order, where a record is kept
    ctor           \* a call of VerticaTarget(...): its arguments and outcome

vars == <<tableExists, rows, conns, leaked, callerConn, pc, frame, obs, everInserted,
          log, ctor>>

NoRows == [u \in UpdateIds |-> 0]

NoRet == [kind |-> "none", val |-> "None", err |-> NoFault]
Value(v) == [kind |-> "value", val |-> v, err |-> NoFault]
Raise(e) == [kind |-> "raise", val |-> "None", err |-> e]

IdleFrame ==
    [op |-> "none", uid |-> "u1", arg |-> None, connection |-> None,
     cconn |-> None, cursor |-> "none", ret |-> NoRet]

IdleObs ==
    [nconnect |-> 0, faulted |-> FALSE,
     created |-> FALSE, dup |-> FALSE,
     insConn |-> None, insOk |-> FALSE,
     selConn |-> None, selRow |-> "unset", selErr |-> NoFault,
     trace |-> << >>]

\* No connection: never opened, or closed.
NoConn == [open |-> FALSE, autocommit |-> FALSE, pending |-> NoRows]

\* Rows a SELECT on connection c sees: the committed ones and those of c's
\* own open transaction.
Visible(c, u) == rows[u] + conns[c].pending[u]

\* ------------------------------------------------------- the driver's side
\* What may have become of the connections cs once a statement on
\* connection c has failed with error e.  In autocommit mode there is no
\* transaction to lose.  Otherwise the transaction of c may have been
\* aborted, its pending rows gone (the docstring of touch: "the connection
\* transaction will be aborted and the connection reset"), or only the
\* statement undone and the transaction kept; after a connection error
\* nothing of it is kept.  No other connection is affected.
AfterError(cs, c, e) ==
    LET aborted == [cs EXCEPT ![c].pending = NoRows]
    IN  IF cs[c].autocommit \/ cs[c].pending = NoRows THEN {cs}
        ELSE IF e.cls = "ConnectionError" THEN {aborted}
        ELSE {cs, aborted}

\* vertica_python.connect(options): a new open connection in the given mode.
Connect(autocommit) ==
    [open |-> TRUE, autocommit |-> autocommit, pending |-> NoRows]

\* A variant of Close that leaves the connection open.
CloseNothing(cs, c) == cs

\* connection.close(): connection c of the connections cs is closed.
Close(cs, c) == [cs EXCEPT ![c].open = FALSE]

\* `connection.autocommit = True` on a connection just opened.
SetAutocommit(connection) == [connection EXCEPT !.autocommit = TRUE]

\* A variant of CreateErrors for a statement that replaces an existing table.
CreateErrorsReplacing(f) ==
    IF f # NoFault THEN {f} ELSE {NoFault}

\* What executing CREATE TABLE can raise (NoFault: nothing, the table is
\* created).  An existing table is reported as Sqlstate 42710, by the typed
\* error or by a plain QueryError carrying the code in its text.
CreateErrors(f) ==
    IF f # NoFault THEN {f}
    ELSE IF tableExists THEN {ErrDuplicate, ErrDuplicateText}
    ELSE {NoFault}

\* What executing the INSERT can raise (NoFault: the row is inserted).
InsertErrors(f) ==
    IF f # NoFault THEN {f}
    ELSE IF ~tableExists THEN {ErrMissingRelation, ErrMissingText}
    ELSE {NoFault}

\* What executing the SELECT can raise (NoFault: the query ran).
SelectErrors(f) ==
    IF f # NoFault THEN {f}
    ELSE IF ~tableExists THEN {ErrMissingRelation, ErrMissingText}
    ELSE {NoFault}

\* What cursor.execute(SELECT 1 ... WHERE update_id = u LIMIT 1) on c leaves
\* on the cursor: a row if one is visible at that moment, else nothing.
SelectResult(c, u) == IF Visible(c, u) > 0 THEN "row" ELSE "empty"

\* cursor.fetchone(): the row on the cursor, or None.
FetchOne(cursor) == IF cursor = "row" THEN "row" ELSE "None"

\* ------------------------------------------------------ VerticaTarget code
\* Strings are sequences of characters; those a host argument is made of
\* here: a letter, the colon, two digits and the minus sign.
Chars == {"h", ":", "4", "5", "-"}
Digits == {"4", "5"}
Hosts == UNION {[1..n -> Chars] : n \in 0..MaxHostLen}
Names == {"a", "b"}

\* The port of a host argument without one.
DefaultPort == 5433

DigitValue(c) == IF c = "4" THEN 4 ELSE 5

\* str.split(':'): the pieces of s between its colons, one more than it has
\* colons.
RECURSIVE Split(_)
Split(s) ==
    IF \A i \in 1..Len(s) : s[i] # ":"
    THEN <<s>>
    ELSE LET i == CHOOSE k \in 1..Len(s) :
                    s[k] = ":" /\ \A j \in 1..(k - 1) : s[j] # ":"
         IN  <<SubSeq(s, 1, i - 1)>> \o Split(SubSeq(s, i + 1, Len(s)))

\* The number a string of digits writes, read from the left.
RECURSIVE Decimal(_, _)
Decimal(s, acc) ==
    IF s = << >> THEN acc ELSE Decimal(Tail(s), 10 * acc + DigitValue(Head(s)))

\* A variant of IntParse that takes a string it cannot read for 0.
IntParseLenient(s) ==
    LET neg == Len(s) > 0 /\ s[1] = "-"
        body == IF neg THEN Tail(s) ELSE s
        valid == Len(body) > 0 /\ \A i \in 1..Len(body) : body[i] \in Digits
        n == IF valid THEN Decimal(body, 0) ELSE 0
    IN  [ok |-> TRUE, val |-> IF neg THEN 0 - n ELSE n]

\* int(s): an optional sign and at least one digit, else ValueError.
IntParse(s) ==
    LET neg == Len(s) > 0 /\ s[1] = "-"
        body == IF neg THEN Tail(s) ELSE s
        valid == Len(body) > 0 /\ \A i \in 1..Len(body) : body[i] \in Digits
        n == IF valid THEN Decimal(body, 0) ELSE 0
    IN  [ok |-> valid, val |-> IF neg THEN 0 - n ELSE n]

\* No instance: the constructor raised.
NoTarget ==
    [host |-> << >>, port |-> 0, database |-> "", user |-> "", password |-> "",
     table |-> "", update_id |-> ""]

\* __init__: the instance it leaves, or the ValueError of the unpacking of
\* host.split(':') or of int().
VerticaTarget(host, database, user, password, table, update_id) ==
    LET parts == Split(host)
        port == IF Len(parts) = 2 THEN IntParse(parts[2]) ELSE [ok |-> FALSE, val |-> 0]
        rest == [NoTarget EXCEPT !.database = database, !.user = user,
                                 !.password = password, !.table = table,
                                 !.update_id = update_id]
    IN  IF \E i \in 1..Len(host) : host[i] = ":"
        THEN IF Len(parts) = 2 /\ port.ok
             THEN [ok |-> TRUE, err |-> "none",
                   self |-> [rest EXCEPT !.host = parts[1], !.port = port.val]]
             ELSE [ok |-> FALSE, err |-> "ValueError", self |-> NoTarget]
        ELSE [ok |-> TRUE, err |-> "none",
              self |-> [rest EXCEPT !.host = host, !.port = DefaultPort]]

\* No constructor call under way.
IdleCtor ==
    [phase |-> "none", host |-> << >>, database |-> "", user |-> "", password |-> "",
     table |-> "", update_id |-> "", result |-> [ok |-> FALSE, err |-> "none", self |-> NoTarget]]

\* A variant of CallsCreateMarkerTable in which exists calls it too.
CallsCreateMarkerTableAlways(o) == TRUE

\* The operations that call self.create_marker_table() first: touch does,
\* exists does not.
CallsCreateMarkerTable(o) == o = "touch"

\* A variant of CreateConn that runs on the connection touch was given.
CreateConnBorrowing(p, connection) ==
    IF connection # None THEN connection ELSE CreateId(p)

\* create_marker_table: `connection = self.connect(autocommit=True)`, the
\* connection of the CREATE TABLE, whatever connection touch holds.
CreateConn(p, connection) == CreateId(p)

\* A variant of TouchEntry that connects whatever it is given.
TouchEntryAlwaysConnects(connection) == "t_connect"

\* A variant of ExistsEntry that connects whatever it is given.
ExistsEntryAlwaysConnects(connection) == "e_connect"

\* exists: `if connection is None: connection = self.connect()`.
ExistsEntry(connection) ==
    IF connection = None THEN "e_connect" ELSE "e_select"

\* touch: `if connection is None: connection = self.connect()`.
TouchEntry(connection) ==
    IF connection = None THEN "t_connect" ELSE "t_insert"

\* A variant of IsMissingRelation without the test of the message text.
IsMissingRelationByTypeOnly(err) ==
    IsVerticaError(err) /\ err.cls = "MissingRelation"

\* A variant of IsMissingRelation that takes every driver error.
IsMissingRelationAnyError(err) == IsVerticaError(err)

\* exists: the error of the SELECT that is taken to mean "no marker table".
IsMissingRelation(err) ==
    IsVerticaError(err) /\ (err.cls = "MissingRelation" \/ err.sqlstate = "42V01")

\* A variant of IsAlreadyExists that looks for the Sqlstate of exists.
IsAlreadyExistsWrongCode(err) ==
    IsQueryError(err) /\ err.sqlstate = "42V01"

\* A variant of IsAlreadyExists that goes by the class of the error.
IsAlreadyExistsByTypeOnly(err) ==
    IsQueryError(err) /\ err.cls = "DuplicateObject"

\* A variant of IsAlreadyExists that passes over every QueryError.
IsAlreadyExistsAnyQueryError(err) == IsQueryError(err)

\* create_marker_table: the error of CREATE TABLE that is passed over.
IsAlreadyExists(err) ==
    IsQueryError(err) /\ err.sqlstate = "42710"

\* A variant of InsertSuppressed that treats the INSERT as exists treats its
\* SELECT.
InsertSuppressedAsInExists(err) ==
    IsVerticaError(err) /\ (err.cls = "MissingRelation" \/ err.sqlstate = "42V01")

\* touch: the error of the INSERT that is passed over: none, the statement
\* stands in no try.
InsertSuppressed(err) == FALSE

\* exists: `return row is not None`.
ExistsResult(row) == row # "None"

\* A variant of TouchAssert that ignores the value.
TouchAssertIgnored(result) == Value("None")

\* touch: `assert self.exists(connection)`.
TouchAssert(result) ==
    IF result THEN Value("None") ELSE Raise(AssertionError)

\* A variant of InsertRows that commits the row in either mode.
InsertRowsAlwaysCommitted(c, u) == [rows EXCEPT ![u] = @ + 1]

\* A variant of InsertRows that keeps one row for each update_id.
InsertRowsOncePerId(c, u) ==
    IF conns[c].autocommit THEN [rows EXCEPT ![u] = 1] ELSE rows

\* The effect of a successful INSERT of a row for u on connection c: the row
\* is committed at once in autocommit mode, and joins c's transaction
\* otherwise.
InsertRows(c, u) ==
    IF conns[c].autocommit THEN [rows EXCEPT ![u] = @ + 1] ELSE rows

InsertPending(c, u) ==
    IF conns[c].autocommit THEN conns
    ELSE [conns EXCEPT ![c].pending[u] = @ + 1]

\* ----------------------------------------------------------------- actions
\* A call moves at each call of the driver: a connect, the CREATE TABLE,
\* the close, the INSERT, the SELECT, the fetchone.  The code between
\* two of them touches only the call's own variables and is taken with the
\* driver call it leads to or follows.

\* A caller constructs a target for update_id u and calls op o on it, with
\* connection argument a (None, or the connection the caller holds).  touch
\* goes into create_marker_table, which connects (autocommit=True); exists
\* connects if it was given no connection.  f is the fault of that connect.
Call(p, o, u, a, f) ==
    LET ensures == o = "create" \/ CallsCreateMarkerTable(o)
        connects == ensures \/ ExistsEntry(a) = "e_connect"
        fr == [op |-> o, uid |-> u, arg |-> a, connection |-> a,
               cconn |-> None, cursor |-> "none", ret |-> NoRet]
        ob == [IdleObs EXCEPT !.nconnect = IF connects THEN 1 ELSE 0,
                              !.faulted = f # NoFault,
                              !.trace = IF ensures THEN <<"connect_ac">>
                                        ELSE IF connects THEN <<"connect">>
                                        ELSE << >>]
    IN
    /\ pc[p] = "idle"
    /\ a \in {None, callerConn[p]}
    /\ o = "create" => a = None
    /\ f # NoFault => connects
    /\ obs' = [obs EXCEPT ![p] = ob]
    /\ IF f # NoFault
       THEN /\ pc' = [pc EXCEPT ![p] = "done"]
            /\ frame' = [frame EXCEPT ![p] = [fr EXCEPT !.ret = Raise(f)]]
            /\ UNCHANGED conns
       ELSE IF ~ensures
       THEN /\ pc' = [pc EXCEPT ![p] = "e_select"]
            /\ frame' = [frame EXCEPT ![p] =
                    [fr EXCEPT !.connection = IF connects THEN OwnId(p) ELSE a]]
            /\ conns' = IF connects
                        THEN [conns EXCEPT ![OwnId(p)] = SetAutocommit(Connect(FALSE))]
                        ELSE conns
       ELSE /\ pc' = [pc EXCEPT ![p] = "c_exec"]
            /\ frame' = [frame EXCEPT ![p] = [fr EXCEPT !.cconn = CreateConn(p, a)]]
            /\ conns' = IF CreateConn(p, a) = CreateId(p)
                        THEN [conns EXCEPT ![CreateId(p)] = Connect(TRUE)]
                        ELSE conns
    /\ UNCHANGED <<tableExists, rows, leaked, callerConn, everInserted, log, ctor>>

\* create_marker_table: cursor.execute(CREATE TABLE ...) and its except
\* clause, which re-raises past connection.close().  f is the fault of the
\* CREATE TABLE.
CreateExec(p, f) ==
    /\ pc[p] = "c_exec"
    /\ \E e \in CreateErrors(f) :
        LET passed == e = NoFault \/ IsAlreadyExists(e)
            o == [obs[p] EXCEPT !.faulted = @ \/ f # NoFault,
                                !.created = (e = NoFault),
                                !.dup = (e # NoFault /\ passed),
                                !.trace = @ \o <<"create">>]
        IN
        /\ obs' = [obs EXCEPT ![p] = o]
        /\ IF e = NoFault
           THEN tableExists' = TRUE /\ rows' = NoRows
           ELSE UNCHANGED <<tableExists, rows>>
        /\ IF ~passed
           THEN /\ pc' = [pc EXCEPT ![p] = "done"]
                /\ frame' = [frame EXCEPT ![p].ret = Raise(e)]
           ELSE /\ pc' = [pc EXCEPT ![p] = "c_close"]
                /\ UNCHANGED frame
    /\ UNCHANGED <<conns, leaked, callerConn, everInserted, log, ctor>>

\* create_marker_table: connection.close() and the return, to its caller
\* or into touch, which goes on to `if connection is None`.
CreateClose(p) ==
    /\ pc[p] = "c_close"
    /\ conns' = Close(conns, frame[p].cconn)
    /\ obs' = [obs EXCEPT ![p].trace = @ \o <<"close">>]
    /\ IF frame[p].op = "create"
       THEN /\ pc' = [pc EXCEPT ![p] = "done"]
            /\ frame' = [frame EXCEPT ![p].ret = Value("None")]
       ELSE /\ pc' = [pc EXCEPT ![p] = TouchEntry(frame[p].connection)]
            /\ UNCHANGED frame
    /\ UNCHANGED <<tableExists, rows, leaked, callerConn, everInserted, log, ctor>>

\* touch, given no connection: `connection = self.connect()` and
\* `connection.autocommit = True`.  g is the fault of the connect.
TouchConnect(p, g) ==
    /\ pc[p] = "t_connect"
    /\ obs' = [obs EXCEPT ![p].faulted = @ \/ g # NoFault,
                          ![p].nconnect = @ + 1,
                          ![p].trace = @ \o <<"connect">>]
    /\ IF g # NoFault
       THEN /\ pc' = [pc EXCEPT ![p] = "done"]
            /\ frame' = [frame EXCEPT ![p].ret = Raise(g)]
            /\ UNCHANGED conns
       ELSE /\ pc' = [pc EXCEPT ![p] = "t_insert"]
            /\ frame' = [frame EXCEPT ![p].connection = OwnId(p)]
            /\ conns' = [conns EXCEPT ![OwnId(p)] = SetAutocommit(Connect(FALSE))]
    /\ UNCHANGED <<tableExists, rows, leaked, callerConn, everInserted, log, ctor>>

\* touch: connection.cursor().execute(INSERT ...), then the call of
\* self.exists(connection), which has a connection and so opens none.
TouchInsert(p, f) ==
    /\ pc[p] = "t_insert"
    /\ \E e \in InsertErrors(f) :
        LET c == frame[p].connection
            u == frame[p].uid
            connects == ExistsEntry(c) = "e_connect"
            o == [obs[p] EXCEPT !.faulted = @ \/ f # NoFault,
                                !.insConn = c, !.insOk = (e = NoFault),
                                !.nconnect = IF e = NoFault /\ connects THEN @ + 1 ELSE @,
                                !.trace = @ \o <<"insert">>
                                            \o (IF e = NoFault /\ connects
                                                THEN <<"connect">> ELSE << >>)]
        IN
        IF e # NoFault /\ InsertSuppressed(e)
        THEN /\ pc' = [pc EXCEPT ![p] = "e_select"]
             /\ obs' = [obs EXCEPT ![p] = o]
             /\ UNCHANGED <<rows, conns, everInserted, frame>>
        ELSE IF e = NoFault
        THEN /\ rows' = InsertRows(c, u)
             /\ conns' = IF connects
                         THEN [InsertPending(c, u) EXCEPT
                                    ![OwnId(p)] = SetAutocommit(Connect(FALSE))]
                         ELSE InsertPending(c, u)
             /\ everInserted' = [everInserted EXCEPT ![u] = TRUE]
             /\ pc' = [pc EXCEPT ![p] = "e_select"]
             /\ frame' = [frame EXCEPT ![p].connection = IF connects THEN OwnId(p) ELSE @]
             /\ obs' = [obs EXCEPT ![p] = o]
        ELSE /\ pc' = [pc EXCEPT ![p] = "done"]
             /\ frame' = [frame EXCEPT ![p].ret = Raise(e)]
             /\ obs' = [obs EXCEPT ![p] = o]
             /\ conns' \in AfterError(conns, c, e)
             /\ UNCHANGED <<rows, everInserted>>
    /\ UNCHANGED <<tableExists, leaked, callerConn, log, ctor>>

\* exists: cursor.execute(SELECT ...), and the except clause for an error
\* of it; in touch, the exists of line 73.  f is the fault of the execute.
ExistsSelect(p, f) ==
    /\ pc[p] = "e_select"
    /\ \E e \in SelectErrors(f) :
        LET c == frame[p].connection
            u == frame[p].uid
            result == ExistsResult("None")
            o == [obs[p] EXCEPT !.faulted = @ \/ f # NoFault,
                                !.selConn = c, !.selErr = e,
                                !.selRow = IF e = NoFault THEN @ ELSE "error",
                                !.trace = @ \o <<"select">>]
        IN
        /\ obs' = [obs EXCEPT ![p] = o]
        /\ IF e = NoFault
           THEN /\ pc' = [pc EXCEPT ![p] = "e_fetch"]
                /\ frame' = [frame EXCEPT ![p].cursor = SelectResult(c, u)]
                /\ UNCHANGED conns
           ELSE /\ pc' = [pc EXCEPT ![p] = "done"]
                /\ frame' = [frame EXCEPT ![p].ret =
                        IF ~IsMissingRelation(e) THEN Raise(e)
                        ELSE IF frame[p].op = "touch" THEN TouchAssert(result)
                        ELSE Value(IF result THEN "True" ELSE "False")]
                /\ conns' \in AfterError(conns, c, e)
    /\ UNCHANGED <<tableExists, rows, leaked, callerConn, everInserted, log, ctor>>

\* exists: `row = cursor.fetchone()`, the except clause for an error of it
\* and the return; in touch, the assert on the returned value.  f is the
\* fault of the fetchone.
ExistsFetch(p, f) ==
    /\ pc[p] = "e_fetch"
    /\ LET row == IF f = NoFault THEN FetchOne(frame[p].cursor) ELSE "None"
           result == ExistsResult(row)
           o == [obs[p] EXCEPT !.faulted = @ \/ f # NoFault,
                               !.selErr = f,
                               !.selRow = IF f = NoFault THEN row ELSE "error"]
       IN
       /\ obs' = [obs EXCEPT ![p] = o]
       /\ frame' = [frame EXCEPT ![p].cursor = "none", ![p].ret =
               IF f # NoFault /\ ~IsMissingRelation(f) THEN Raise(f)
               ELSE IF frame[p].op = "touch" THEN TouchAssert(result)
               ELSE Value(IF result THEN "True" ELSE "False")]
       /\ IF f = NoFault
          THEN UNCHANGED conns
          ELSE conns' \in AfterError(conns, frame[p].connection, f)
    /\ pc' = [pc EXCEPT ![p] = "done"]
    /\ UNCHANGED <<tableExists, rows, leaked, callerConn, everInserted, log, ctor>>

\* The local variables of p's call go out of scope: nothing refers any
\* more to the connections they referred to, which stay as they are.
DropLocals(p) ==
    /\ conns' = [conns EXCEPT ![CreateId(p)] = NoConn, ![OwnId(p)] = NoConn]
    /\ frame' = [frame EXCEPT ![p] = IdleFrame]
    /\ obs' = [obs EXCEPT ![p] = IdleObs]

\* The connections p's call leaves open behind it.
LeftOpen(p) ==
    (IF conns[CreateId(p)].open THEN 1 ELSE 0) + (IF conns[OwnId(p)].open THEN 1 ELSE 0)

\* The call returns to its caller (or raises there).
Return(p) ==
    /\ pc[p] = "done"
    /\ pc' = [pc EXCEPT ![p] = "idle"]
    /\ DropLocals(p)
    /\ UNCHANGED <<tableExists, rows, leaked, callerConn, everInserted, log, ctor>>

\* The same, with a record of what the call returned and left open.
ReturnLog(p) ==
    /\ pc[p] = "done"
    /\ pc' = [pc EXCEPT ![p] = "idle"]
    /\ log' = Append(log, [op |-> frame[p].op, uid |-> frame[p].uid, ret |-> frame[p].ret])
    /\ leaked' = leaked + LeftOpen(p)
    /\ DropLocals(p)
    /\ UNCHANGED <<tableExists, rows, callerConn, everInserted, ctor>>

\* A caller opens a connection of its own, target.connect(autocommit), to
\* pass to touch or exists.
CallerConnect(p, autocommit) ==
    /\ pc[p] = "idle"
    /\ callerConn[p] = None
    /\ conns' = [conns EXCEPT ![CallerId(p)] = Connect(autocommit)]
    /\ callerConn' = [callerConn EXCEPT ![p] = CallerId(p)]
    /\ UNCHANGED <<tableExists, rows, leaked, pc, frame, obs, everInserted, log, ctor>>

\* A caller commits the transaction of its connection.
CallerCommit(p) ==
    /\ pc[p] = "idle"
    /\ callerConn[p] # None
    /\ conns[callerConn[p]].pending # NoRows
    /\ rows' = [u \in UpdateIds |-> rows[u] + conns[callerConn[p]].pending[u]]
    /\ conns' = [conns EXCEPT ![callerConn[p]].pending = NoRows]
    /\ UNCHANGED <<tableExists, leaked, callerConn, pc, frame, obs, everInserted, log, ctor>>

\* A caller rolls the transaction of its connection back.
CallerRollback(p) ==
    /\ pc[p] = "idle"
    /\ callerConn[p] # None
    /\ conns[callerConn[p]].pending # NoRows
    /\ conns' = [conns EXCEPT ![callerConn[p]].pending = NoRows]
    /\ UNCHANGED <<tableExists, rows, leaked, callerConn, pc, frame, obs, everInserted, log, ctor>>

\* VerticaTarget(host, database, user, password, table, update_id) is
\* called and returns or raises.
Construct ==
    /\ ctor.phase = "args"
    /\ ctor' = [ctor EXCEPT !.phase = "made",
                    !.result = VerticaTarget(ctor.host, ctor.database, ctor.user,
                                             ctor.password, ctor.table, ctor.update_id)]
    /\ UNCHANGED <<tableExists, rows, conns, leaked, callerConn, pc, frame, obs,
                   everInserted, log>>

\* ---------------------------------------------------------- specifications
\* A fresh database: no marker table, no connection, nobody running.
Init ==
    /\ ctor = IdleCtor
    /\ tableExists = FALSE
    /\ rows = NoRows
    /\ conns = [c \in ConnIds |-> NoConn]
    /\ leaked = 0
    /\ callerConn = [p \in Procs |-> None]
    /\ pc = [p \in Procs |-> "idle"]
    /\ frame = [p \in Procs |-> IdleFrame]
    /\ obs = [p \in Procs |-> IdleObs]
    /\ everInserted = [u \in UpdateIds |-> FALSE]
    /\ log = << >>

\* Rows in the table or on their way into it: committed, in a caller's
\* transaction, or of a touch that has not reached its INSERT.
Load ==
    LET RowsOf(r) == r["u1"] + r["u2"]
        InFlight == {p \in Procs : pc[p] \in {"c_exec", "c_close", "t_connect", "t_insert"}
                                    /\ frame[p].op = "touch"}
        Pending[n \in 0..NumProcs] ==
            IF n = 0 THEN 0 ELSE RowsOf(conns[CallerId(n)].pending) + Pending[n - 1]
    IN  RowsOf(rows) + Cardinality(InFlight) + Pending[NumProcs]

\* Calls started so far, where a record is kept.
Started == Len(log) + Cardinality({p \in Procs : pc[p] # "idle"})

\* Any callers, any faults; a caller's own connection holds a transaction
\* (the default of connect).
Next ==
    \/ \E p \in Callers, o \in Ops, u \in UpdateIds, a \in {None} \cup ConnIds,
          f \in {NoFault} \cup ConnectFaults :
            /\ Call(p, o, u, a, f)
            /\ o = "touch" => Load < MaxRows
    \/ \E p \in Callers, f \in {NoFault} \cup CreateFaults : CreateExec(p, f)
    \/ \E p \in Callers : CreateClose(p)
    \/ \E p \in Callers, g \in {NoFault} \cup ConnectFaults : TouchConnect(p, g)
    \/ \E p \in Callers, f \in {NoFault} \cup InsertFaults : TouchInsert(p, f)
    \/ \E p \in Callers, f \in {NoFault} \cup SelectFaults : ExistsSelect(p, f)
    \/ \E p \in Callers, f \in {NoFault} \cup SelectFaults : ExistsFetch(p, f)
    \/ \E p \in Callers : Return(p)
    \/ \E p \in Callers : CallerConnect(p, FALSE)
    \/ \E p \in Callers : CallerCommit(p)
    \/ \E p \in Callers : CallerRollback(p)

Spec == Init /\ [][Next]_vars

\* One caller, one call after the other, each on a connection it opens
\* itself, no database faults.
NextSeq ==
    \/ \E o \in Ops, u \in UpdateIds :
            /\ Call(1, o, u, None, NoFault)
            /\ Started < MaxSeqCalls
    \/ CreateExec(1, NoFault)
    \/ CreateClose(1)
    \/ TouchConnect(1, NoFault)
    \/ TouchInsert(1, NoFault)
    \/ ExistsSelect(1, NoFault)
    \/ ExistsFetch(1, NoFault)
    \/ ReturnLog(1)

SpecSeq == Init /\ [][NextSeq]_vars

\* Concurrent callers, each call on a connection it opens itself, no
\* database faults.
NextRace ==
    \/ \E p \in Procs, o \in Ops, u \in UpdateIds :
            /\ Call(p, o, u, None, NoFault)
            /\ Started < MaxRaceCalls
    \/ \E p \in Procs : CreateExec(p, NoFault)
    \/ \E p \in Procs : CreateClose(p)
    \/ \E p \in Procs : TouchConnect(p, NoFault)
    \/ \E p \in Procs : TouchInsert(p, NoFault)
    \/ \E p \in Procs : ExistsSelect(p, NoFault)
    \/ \E p \in Procs : ExistsFetch(p, NoFault)
    \/ \E p \in Procs : ReturnLog(p)

SpecRace == Init /\ [][NextRace]_vars

\* A constructor call with any arguments within the bounds.
InitCtor ==
    /\ \E h \in Hosts, d \in Names, u \in Names, w \in Names, t \in Names, i \in UpdateIds :
        ctor = [IdleCtor EXCEPT !.phase = "args", !.host = h, !.database = d,
                                !.user = u, !.password = w, !.table = t,
                                !.update_id = i]
    /\ tableExists = FALSE
    /\ rows = NoRows
    /\ conns = [c \in ConnIds |-> NoConn]
    /\ leaked = 0
    /\ callerConn = [p \in Procs |-> None]
    /\ pc = [p \in Procs |-> "idle"]
    /\ frame = [p \in Procs |-> IdleFrame]
    /\ obs = [p \in Procs |-> IdleObs]
    /\ everInserted = [u \in UpdateIds |-> FALSE]
    /\ log = << >>

NextCtor == Construct

SpecCtor == InitCtor /\ [][NextCtor]_vars

TypeOK ==
    /\ tableExists \in BOOLEAN
    /\ \A u \in UpdateIds : rows[u] \in Nat
    /\ \A p \in Procs : callerConn[p] \in {None, CallerId(p)}
    /\ \A p \in Procs : frame[p].connection \in {None, CallerId(p), OwnId(p)}
    /\ \A p \in Procs : frame[p].cconn \in {None, CreateId(p)}
    /\ \A p \in Procs : frame[p].cursor \in {"none", "row", "empty"}
    /\ \A p \in Procs : frame[p].cursor # "none" => pc[p] = "e_fetch"
    /\ \A p \in Procs : Len(obs[p].trace) <= 6
    /\ leaked \in Nat

\* ------------------------------------------------------------------ claims
Running(p, o) == pc[p] = "done" /\ frame[p].op = o

\* C1: an exists call that met no fault returns False, and raises nothing,
\* for an update_id no touch has inserted a row for, also when the marker
\* table was never created; and an exists call returns True only when the
\* table holds a row for its update_id that its connection can see.
InvC1 ==
    \A p \in Procs :
        Running(p, "exists") =>
            /\ (~obs[p].faulted /\ ~everInserted[frame[p].uid]) =>
                    frame[p].ret = Value("False")
            /\ frame[p].ret = Value("True") =>
                    tableExists /\ Visible(frame[p].connection, frame[p].uid) > 0

\* C1 witness: exists returned False from the missing-relation error of a
\* database without marker table.
WitC1 ==
    \E p \in Procs :
        /\ Running(p, "exists")
        /\ ~tableExists
        /\ ~obs[p].faulted
        /\ obs[p].selErr = ErrMissingText
        /\ frame[p].ret = Value("False")

\* C2: touch returns normally only if the SELECT of its exists check ran on
\* the connection of its INSERT and found a row, so that a row for the
\* update_id is visible on that connection; a check that found none makes
\* touch raise.
InvC2 ==
    \A p \in Procs :
        Running(p, "touch") =>
            /\ frame[p].ret.kind = "value" =>
                    /\ obs[p].insOk
                    /\ obs[p].selConn = obs[p].insConn
                    /\ obs[p].selConn = frame[p].connection
                    /\ obs[p].selRow = "row"
                    /\ tableExists
                    /\ Visible(frame[p].connection, frame[p].uid) > 0
            /\ (obs[p].selConn # None /\ obs[p].selRow # "row") =>
                    frame[p].ret.kind = "raise"

\* C2 witness: touch returned normally on a borrowed connection whose
\* transaction holds the inserted row.
WitC2 ==
    \E p \in Procs :
        /\ Running(p, "touch")
        /\ frame[p].ret = Value("None")
        /\ frame[p].arg # None
        /\ conns[frame[p].arg].pending[frame[p].uid] > 0

TouchesOf(u) == {i \in 1..Len(log) : log[i].op = "touch" /\ log[i].uid = u}

\* C3: in a sequence of calls on a fresh database, each on its own
\* connection and without faults, every touch succeeds, an exists returns
\* True exactly when a touch for its update_id came before it, and between
\* calls the table holds as many rows for an update_id as touches were made
\* for it (exists, touch, exists, touch: False, success, True, success, and
\* 2 rows).
InvC3 ==
    /\ \A i \in 1..Len(log) :
        /\ log[i].op = "touch" => log[i].ret = Value("None")
        /\ log[i].op = "exists" =>
              log[i].ret = Value(IF \E j \in TouchesOf(log[i].uid) : j < i
                                 THEN "True" ELSE "False")
    /\ pc[1] = "idle" =>
        /\ \A u \in UpdateIds : rows[u] = Cardinality(TouchesOf(u))
        /\ tableExists <=> \E i \in 1..Len(log) : log[i].op \in {"touch", "create"}

\* C3 witness: the scenario exists, touch, exists, touch on one update_id.
WitC3 ==
    /\ log = << [op |-> "exists", uid |-> "u1", ret |-> Value("False")],
                [op |-> "touch", uid |-> "u1", ret |-> Value("None")],
                [op |-> "exists", uid |-> "u1", ret |-> Value("True")],
                [op |-> "touch", uid |-> "u1", ret |-> Value("None")] >>
    /\ tableExists
    /\ rows["u1"] = 2

\* C4: the CREATE TABLE step of create_marker_table, when it meets no
\* fault, ends with the table present, has created it exactly if it was
\* absent, changes no row and goes on to the close, also when the table was
\* there; the close step closes its connection, changes neither table nor
\* rows, and makes a create_marker_table call return normally.
ThmC4 ==
    [][\A p \in Procs :
          /\ (pc[p] = "c_exec" /\ pc'[p] # "c_exec" /\ ~obs'[p].faulted) =>
                /\ tableExists'
                /\ obs'[p].created <=> ~tableExists
                /\ rows' = rows
                /\ \A c \in ConnIds : conns'[c].pending = conns[c].pending
                /\ pc'[p] = "c_close"
          /\ (pc[p] = "c_close" /\ pc'[p] # "c_close") =>
                /\ tableExists' = tableExists
                /\ rows' = rows
                /\ \A c \in ConnIds : conns'[c].pending = conns[c].pending
                /\ ~conns'[CreateId(p)].open
                /\ frame[p].op = "create" =>
                        pc'[p] = "done" /\ frame'[p].ret = Value("None")]_vars

\* C4 witness: create_marker_table returned normally on a table that was
\* there, with rows in it.
WitC4 ==
    \E p \in Procs :
        /\ Running(p, "create")
        /\ obs[p].dup
        /\ ~obs[p].faulted
        /\ rows # NoRows
        /\ frame[p].ret = Value("None")

\* C5: when the SELECT of exists raises an error that is not a
\* missing-relation error, exists raises that error and returns no value.
InvC5 ==
    \A p \in Procs :
        (/\ Running(p, "exists")
         /\ obs[p].selErr # NoFault
         /\ obs[p].selErr.cls # "MissingRelation"
         /\ obs[p].selErr.sqlstate # "42V01") =>
            frame[p].ret = Raise(obs[p].selErr)

\* C5 witness: exists raised the permission error of its SELECT.
WitC5 ==
    \E p \in Procs :
        /\ Running(p, "exists")
        /\ obs[p].selErr = ErrPermission
        /\ frame[p].ret = Raise(ErrPermission)

\* C6: once a row for an update_id is committed, no step removes it or the
\* table, and every exists for that update_id whose SELECT runs from then
\* on without a fault finds the row, and returns True when its fetchone
\* meets no fault either.
ThmC6 ==
    [][\A u \in UpdateIds :
          rows[u] > 0 =>
            /\ tableExists'
            /\ rows'[u] >= rows[u]
            /\ \A p \in Procs :
                /\ (/\ pc[p] = "e_select" /\ pc'[p] # "e_select"
                    /\ frame[p].op = "exists" /\ frame[p].uid = u
                    /\ ~obs'[p].faulted) =>
                        (pc'[p] = "e_fetch" /\ frame'[p].cursor = "row")
                /\ (/\ pc[p] = "e_fetch" /\ pc'[p] = "done"
                    /\ frame[p].op = "exists" /\ frame[p].uid = u
                    /\ frame[p].cursor = "row"
                    /\ ~obs'[p].faulted) =>
                        frame'[p].ret = Value("True")]_vars

\* C6 witness: exists returned True for an update_id whose row was committed
\* before the call began.
WitC6 ==
    \E p \in Procs :
        /\ Running(p, "exists")
        /\ frame[p].arg = None
        /\ rows[frame[p].uid] > 0
        /\ frame[p].ret = Value("True")

\* C7: of concurrent touch calls on connections of their own and without
\* faults, every one returns normally; when two touch calls for one
\* update_id are the only calls made on a fresh database, the table ends
\* with exactly two rows for it, however their steps interleave.
InvC7 ==
    /\ \A p \in Procs : Running(p, "touch") => frame[p].ret = Value("None")
    /\ \A p, q \in Procs :
        (/\ p # q /\ Started = 2
         /\ Running(p, "touch") /\ Running(q, "touch")
         /\ frame[p].uid = frame[q].uid) =>
            /\ tableExists
            /\ rows[frame[p].uid] = 2

\* C7 witness: the two calls began on the fresh database, one created the
\* table and the other passed over the already-exists error.
WitC7 ==
    \E p, q \in Procs :
        /\ p # q /\ Started = 2
        /\ Running(p, "touch") /\ Running(q, "touch")
        /\ frame[p].uid = frame[q].uid
        /\ obs[p].created /\ obs[q].dup
        /\ rows[frame[p].uid] = 2

\* The persisted changes p's call has made: it created the table, or its
\* INSERT was committed.
Created(p) == obs[p].created
Committed(p) == obs[p].insOk /\ conns[obs[p].insConn].autocommit

\* C8 as stated: when touch raises, its call has changed nothing persisted.
CexC8 ==
    \A p \in Procs :
        (Running(p, "touch") /\ frame[p].ret.kind = "raise") =>
            ~Created(p) /\ ~Committed(p)

\* C8 amended: no step of a touch drops the table or removes a committed
\* row, and the step in which touch raises commits none; so when touch has
\* raised, a table it created is there, a row it inserted in autocommit
\* mode is there, committed, and it has inserted none unless the error is
\* that of its exists check.  Of the caller's transaction nothing is
\* promised: the step in which touch raises leaves its pending rows as
\* they were or, its statement having failed on that connection, leaves
\* none of them; the steps before it only add to them.
ThmC8 ==
    /\ [](\A p \in Procs :
            (Running(p, "touch") /\ frame[p].ret.kind = "raise") =>
                /\ Created(p) => tableExists
                /\ Committed(p) => rows[frame[p].uid] > 0
                /\ obs[p].insOk <=> obs[p].selConn # None
                /\ (obs[p].insOk /\ ~Committed(p)) =>
                        \/ conns[obs[p].insConn].pending[frame[p].uid] > 0
                        \/ conns[obs[p].insConn].pending = NoRows)
    /\ [][\A p \in Procs :
            (frame[p].op = "touch" /\ pc'[p] # pc[p]) =>
                /\ tableExists => tableExists'
                /\ \A u \in UpdateIds : rows'[u] >= rows[u]
                /\ IF pc'[p] = "done" /\ frame'[p].ret.kind = "raise"
                   THEN /\ rows' = rows
                        /\ \A c \in ConnIds :
                             \/ conns'[c].pending = conns[c].pending
                             \/ /\ c = frame[p].connection
                                /\ ~conns[c].autocommit
                                /\ conns'[c].pending = NoRows
                   ELSE \A c \in ConnIds, u \in UpdateIds :
                             conns'[c].pending[u] >= conns[c].pending[u]]_vars

\* C8 witness: touch raised from its exists check, having created the table
\* and committed its row.
WitC8 ==
    \E p \in Procs :
        /\ Running(p, "touch")
        /\ frame[p].ret.kind = "raise"
        /\ Created(p)
        /\ Committed(p)
        /\ rows[frame[p].uid] > 0

\* C9 as stated: whenever create_marker_table has returned or raised, the
\* connection it opened is closed.
CexC9 ==
    \A p \in Procs :
        (pc[p] = "done" /\ frame[p].cconn # None) => ~conns[frame[p].cconn].open

\* C10: an exists call given a connection runs its SELECT on it and calls
\* connect not once; given none, it calls connect exactly once and runs its
\* SELECT on the connection it got.
InvC10 ==
    \A p \in Procs :
        Running(p, "exists") =>
            /\ frame[p].arg # None =>
                    /\ obs[p].nconnect = 0
                    /\ obs[p].selConn = frame[p].arg
                    /\ ~conns[OwnId(p)].open
            /\ frame[p].arg = None =>
                    /\ obs[p].nconnect = 1
                    /\ obs[p].selConn \in {None, OwnId(p)}
                    /\ obs[p].selConn = None <=> ~conns[OwnId(p)].open

\* C10 witness: exists returned a value from the connection it was given.
WitC10 ==
    \E p \in Procs :
        /\ Running(p, "exists")
        /\ frame[p].arg # None
        /\ obs[p].selConn = frame[p].arg
        /\ obs[p].nconnect = 0
        /\ frame[p].ret = Value("True")

\* C11: create_marker_table returns normally exactly when its CREATE TABLE
\* succeeded or failed with the already-exists error (Sqlstate 42710); an
\* error it raises is never that one, and a fault of any other kind in it
\* is raised to the caller, also through touch.
InvC11 ==
    \A p \in Procs :
        /\ Running(p, "create") =>
            /\ frame[p].ret.kind = "value" <=> (obs[p].created \/ obs[p].dup)
            /\ frame[p].ret.kind = "raise" <=> obs[p].faulted
            /\ frame[p].ret.kind = "raise" => frame[p].ret.err.sqlstate # "42710"
        /\ (pc[p] = "done" /\ frame[p].op \in {"create", "touch"}) =>
            /\ frame[p].ret.err.sqlstate # "42710"
            /\ (obs[p].faulted /\ obs[p].insConn = None) => frame[p].ret.kind = "raise"

\* C11 witness: create_marker_table raised the permission error of its
\* CREATE TABLE.
WitC11 ==
    \E p \in Procs :
        /\ Running(p, "create")
        /\ frame[p].cconn # None
        /\ frame[p].ret = Raise(ErrPermission)

\* C12: when the INSERT of touch fails, with a missing-relation error or
\* any other, touch raises that error: it returns no value and its exists
\* check has not run.
InvC12 ==
    \A p \in Procs :
        (Running(p, "touch") /\ obs[p].insConn # None /\ ~obs[p].insOk) =>
            /\ frame[p].ret.kind = "raise"
            /\ frame[p].ret.err \in InsertFaults \cup {ErrMissingRelation, ErrMissingText}
            /\ obs[p].selConn = None
            /\ obs[p].selRow = "unset"

\* C12 witness: touch raised the missing-relation error of its INSERT, after
\* create_marker_table had returned.
WitC12 ==
    \E p \in Procs :
        /\ Running(p, "touch")
        /\ obs[p].created \/ obs[p].dup
        /\ obs[p].insConn # None
        /\ frame[p].ret = Raise(ErrMissingRelation)

\* C13: create_marker_table runs its CREATE TABLE on an autocommit
\* connection of its own, never on the connection touch was given, and its
\* steps (creation, already-exists or failure, then the close) leave the
\* caller's connection as it was: open, in its mode, with the same pending
\* rows.
ThmC13 ==
    /\ [](\A p \in Procs :
            pc[p] \in {"c_exec", "c_close"} =>
                /\ frame[p].cconn = CreateId(p)
                /\ frame[p].cconn # frame[p].arg
                /\ conns[frame[p].cconn].open
                /\ conns[frame[p].cconn].autocommit)
    /\ [][\A p \in Procs :
            (pc[p] \in {"c_exec", "c_close"} /\ pc'[p] # pc[p]) =>
                conns'[CallerId(p)] = conns[CallerId(p)]]_vars

\* C13 witness: a touch given a connection with an open transaction has
\* passed create_marker_table, which met the already-exists error.
WitC13 ==
    \E p \in Procs :
        /\ pc[p] = "t_insert"
        /\ frame[p].arg = CallerId(p)
        /\ conns[CallerId(p)].open
        /\ ~conns[CallerId(p)].autocommit
        /\ conns[CallerId(p)].pending # NoRows
        /\ obs[p].dup
        /\ ~conns[CreateId(p)].open

\* The colons of a string, and ten to the n.
Colons(s) == {i \in 1..Len(s) : s[i] = ":"}
Pow10[n \in 0..(MaxHostLen + 1)] == IF n = 0 THEN 1 ELSE 10 * Pow10[n - 1]

\* The number written by the digits of s from position i on.
Written(s, i) ==
    LET Sum[k \in (i - 1)..Len(s)] ==
            IF k = i - 1 THEN 0 ELSE Sum[k - 1] + DigitValue(s[k]) * Pow10[Len(s) - k]
    IN  Sum[Len(s)]

\* C14: a host without a colon is kept whole with port 5433; a host with
\* one colon followed by digits only is cut there, the port being the number
\* the digits write; with one colon followed by nothing or by something that
\* holds a letter the constructor raises and leaves no instance; an instance
\* holds the other arguments as they were given.
InvC14 ==
    ctor.phase = "made" =>
        LET h == ctor.host
            r == ctor.result
        IN
        /\ Colons(h) = {} =>
            r.ok /\ r.self.host = h /\ r.self.port = DefaultPort
        /\ \A i \in Colons(h) :
            (Colons(h) = {i} /\ i < Len(h) /\ \A k \in (i + 1)..Len(h) : h[k] \in Digits) =>
                /\ r.ok
                /\ r.self.host = SubSeq(h, 1, i - 1)
                /\ r.self.port = Written(h, i + 1)
        /\ \A i \in Colons(h) :
            (Colons(h) = {i} /\ (i = Len(h) \/ \E k \in (i + 1)..Len(h) : h[k] = "h")) =>
                ~r.ok /\ r.err = "ValueError" /\ r.self = NoTarget
        /\ r.ok =>
            /\ r.self.database = ctor.database
            /\ r.self.user = ctor.user
            /\ r.self.password = ctor.password
            /\ r.self.table = ctor.table
            /\ r.self.update_id = ctor.update_id
        /\ r.ok <=> r.err = "none"

\* C14 witness: the host "h:54" gave host "h" and port 54.
WitC14 ==
    /\ ctor.phase = "made"
    /\ ctor.host = <<"h", ":", "5", "4">>
    /\ ctor.result.ok
    /\ ctor.result.self.host = <<"h">>
    /\ ctor.result.self.port = 54
    /\ ctor.result.self.table = "b"

\* The driver calls of a whole touch, in the order of the code, given the
\* connection argument.
TouchOrder(arg) ==
    <<"connect_ac", "create", "close">>
        \o (IF arg = None THEN <<"connect">> ELSE << >>)
        \o <<"insert", "select">>

IsPrefix(s, t) == Len(s) <= Len(t) /\ SubSeq(t, 1, Len(s)) = s

\* C15: the driver calls of a touch are, at every moment, a beginning of:
\* connect in autocommit mode, CREATE TABLE, close (create_marker_table),
\* connect only if no connection was given, INSERT, SELECT; the first of
\* them is made whatever the argument and whether or not the table exists;
\* the INSERT comes only after create_marker_table returned normally, on
\* the given connection or else on the one touch opened and set to
\* autocommit; the SELECT runs on the connection of the INSERT.
InvC15 ==
    \A p \in Procs :
        (pc[p] # "idle" /\ frame[p].op = "touch") =>
            /\ IsPrefix(obs[p].trace, TouchOrder(frame[p].arg))
            /\ Len(obs[p].trace) >= 1
            /\ obs[p].insConn # None =>
                /\ obs[p].created \/ obs[p].dup
                /\ obs[p].insConn = IF frame[p].arg = None THEN OwnId(p) ELSE frame[p].arg
                /\ frame[p].arg = None => conns[OwnId(p)].autocommit
            /\ obs[p].selConn # None => (obs[p].insOk /\ obs[p].selConn = obs[p].insConn)
            /\ (pc[p] = "done" /\ frame[p].ret.kind = "value") =>
                obs[p].trace = TouchOrder(frame[p].arg)

\* C15 witness: a touch given a connection returned, the table having
\* existed before it.
WitC15 ==
    \E p \in Procs :
        /\ Running(p, "touch")
        /\ frame[p].arg # None
        /\ obs[p].dup
        /\ frame[p].ret = Value("None")
        /\ obs[p].trace = <<"connect_ac", "create", "close", "insert", "select">>

\* The completed calls of touch and exists on record.
ConnectingCalls == {i \in 1..Len(log) : log[i].op \in {"touch", "exists"}}

\* C16: of calls made without a connection, every exists and every touch
\* has left the one connection it opened open, and nothing else is left
\* open: the connection of create_marker_table is closed once it has
\* returned, the one of a running exists or touch is open.
InvC16 ==
    /\ leaked = Cardinality(ConnectingCalls)
    /\ \A p \in Procs :
        /\ (pc[p] \in {"t_connect", "t_insert", "e_select", "e_fetch", "done"}
                /\ frame[p].cconn # None) =>
                ~conns[frame[p].cconn].open
        /\ (pc[p] \in {"t_insert", "e_select", "e_fetch", "done"}
                /\ frame[p].op \in {"touch", "exists"}) =>
                /\ frame[p].connection = OwnId(p)
                /\ conns[OwnId(p)].open
        /\ pc[p] = "idle" => (~conns[OwnId(p)].open /\ ~conns[CreateId(p)].open)

\* C16 witness: four calls have returned, one of them create_marker_table,
\* and three connections are left open.
WitC16 ==
    /\ \A p \in Procs : pc[p] = "idle"
    /\ Len(log) = 4
    /\ \E i \in 1..Len(log) : log[i].op = "create"
    /\ \E i \in 1..Len(log) : log[i].op = "exists"
    /\ leaked = 3

\* C17: touch leaves the transaction of a connection it was given to the
\* caller.  Its INSERT on such a connection, not in autocommit mode, commits
\* no row; after it has returned the row is pending on that connection and
\* visible there; no step of a call changes the mode of the caller's
\* connection or closes it, while the connection touch opened itself is in
\* autocommit mode and holds nothing pending; an exists on a connection of
\* its own answers True only when a row for the update_id was committed
\* when its SELECT ran.
ThmC17 ==
    /\ [](\A p \in Procs :
            (Running(p, "touch") /\ frame[p].ret.kind = "value") =>
                IF frame[p].arg # None
                THEN /\ obs[p].insConn = frame[p].arg
                     /\ conns[frame[p].arg].open
                     /\ ~conns[frame[p].arg].autocommit
                     /\ conns[frame[p].arg].pending[frame[p].uid] > 0
                     /\ Visible(frame[p].arg, frame[p].uid) > 0
                ELSE /\ conns[OwnId(p)].autocommit
                     /\ conns[OwnId(p)].pending = NoRows
                     /\ rows[frame[p].uid] > 0)
    /\ [][\A p \in Procs :
            /\ (pc[p] = "t_insert" /\ pc'[p] # "t_insert" /\ frame[p].arg # None) =>
                    rows' = rows
            /\ pc'[p] # pc[p] =>
                    /\ conns'[CallerId(p)].autocommit = conns[CallerId(p)].autocommit
                    /\ conns'[CallerId(p)].open = conns[CallerId(p)].open
            /\ (pc[p] = "e_select" /\ frame[p].op = "exists" /\ frame[p].arg = None
                    /\ frame'[p].cursor = "row") =>
                    rows[frame[p].uid] > 0
            /\ (pc[p] = "e_fetch" /\ frame[p].op = "exists"
                    /\ frame'[p].ret = Value("True")) =>
                    frame[p].cursor = "row"]_vars

\* C17 witness: an exists on a connection of its own has answered False
\* while the row of a returned touch waits, uncommitted, in the transaction
\* of the caller's connection.
WitC17 ==
    \E p \in Procs :
        /\ Running(p, "exists")
        /\ frame[p].arg = None
        /\ obs[p].selRow = "None"
        /\ frame[p].ret = Value("False")
        /\ everInserted[frame[p].uid]
        /\ callerConn[p] # None
        /\ conns[CallerId(p)].pending[frame[p].uid] > 0
        /\ rows[frame[p].uid] = 0

\* The marker of a touch is gone after the caller's rollback: an exists on
\* the caller's connection finds no row of an update_id that was inserted.
LostC17 ==
    \E p \in Procs :
        /\ Running(p, "exists")
        /\ frame[p].arg # None
        /\ obs[p].selRow = "None"
        /\ everInserted[frame[p].uid]
        /\ Visible(frame[p].arg, frame[p].uid) = 0

\* C18: with calls running side by side on connections of their own and
\* no faults, an exists never raises, wherever the touches beside it stand:
\* its SELECT finds a row exactly when one for its update_id was committed
\* before it ran, it answers True exactly when its SELECT found one, and
\* False when the table was absent or held no such row yet.
ThmC18 ==
    /\ [](\A p \in Procs :
            Running(p, "exists") =>
                /\ frame[p].ret.kind = "value"
                /\ frame[p].ret = Value("True") =>
                        (everInserted[frame[p].uid] /\ rows[frame[p].uid] > 0))
    /\ [][\A p \in Procs :
            /\ (pc[p] = "e_select" /\ frame[p].op = "exists" /\ pc'[p] # "e_select") =>
                    /\ frame'[p].cursor = "row" <=> rows[frame[p].uid] > 0
                    /\ ~tableExists => (pc'[p] = "done" /\ frame'[p].ret = Value("False"))
                    /\ tableExists => pc'[p] = "e_fetch"
            /\ (pc[p] = "e_fetch" /\ frame[p].op = "exists" /\ pc'[p] = "done") =>
                    (frame'[p].ret = Value("True") <=> frame[p].cursor = "row")]_vars

\* C18 witness: of two calls started together on a fresh database, the
\* exists has answered False off the table the touch has created and not yet
\* inserted into.
WitC18 ==
    \E p, q \in Procs :
        /\ Len(log) = 0
        /\ Running(p, "exists")
        /\ obs[p].selRow = "None"
        /\ obs[p].selErr = NoFault
        /\ frame[p].ret = Value("False")
        /\ pc[q] = "t_insert"
        /\ frame[q].op = "touch"
        /\ frame[q].uid = frame[p].uid
        /\ obs[q].created

\* Sequence s holds x at some position.
Holds(s, x) == \E i \in 1..Len(s) : s[i] = x

\* C19: exists only reads: a call of it runs neither create_marker_table
\* nor an INSERT, and no step of it, from the call to the return, changes
\* whether the marker table exists or the committed rows, or adds to the
\* rows pending on any connection: these stay as they are, unless its
\* SELECT or fetchone failed on the connection it was given, which may
\* have cost that connection its transaction.
ThmC19 ==
    /\ [](\A p \in Procs :
            (pc[p] # "idle" /\ frame[p].op = "exists") =>
                /\ frame[p].cconn = None
                /\ ~obs[p].created /\ ~obs[p].dup
                /\ obs[p].insConn = None
                /\ ~Holds(obs[p].trace, "create")
                /\ ~Holds(obs[p].trace, "insert"))
    /\ [][\A p \in Procs :
            (pc'[p] # pc[p] /\ (frame[p].op = "exists" \/ frame'[p].op = "exists")) =>
                /\ tableExists' = tableExists
                /\ rows' = rows
                /\ \A c \in ConnIds :
                     \/ conns'[c].pending = conns[c].pending
                     \/ /\ c = frame[p].arg
                        /\ obs'[p].selErr # NoFault
                        /\ conns'[c].pending = NoRows]_vars

\* C19 witness: an exists has answered True off a table that holds a
\* committed row of its update_id, having opened a connection and selected.
WitC19 ==
    \E p \in Procs :
        /\ Running(p, "exists")
        /\ tableExists
        /\ rows[frame[p].uid] > 0
        /\ frame[p].ret = Value("True")
        /\ obs[p].trace = <<"connect", "select">>

====
